---- MODULE Spec2Model ----
(***************************************************************************)
(* dev.py: a poller that fetches a batch of log records once a minute and  *)
(* keeps three accumulators: the ERROR/CRITICAL histogram per project and  *)
(* hour (errorStats), the window of the last 5 tracebacks (lastTBacks) and *)
(* the list of all request durations (lastReqDurs), from which the mean    *)
(* and the population standard deviation are reported.                     *)
(*                                                                         *)
(* A log record is a function from the field names it carries to their     *)
(* values: "traceback" \in DOMAIN log is Python's "traceback" in log.      *)
(***************************************************************************)
EXTENDS Integers, Sequences, FiniteSets, Bags, TLC

VARIABLES
  pc,           \* position of the main loop: "run", "sleep" or "exited"
  tz,           \* the local UTC offset in seconds, fixed for the process
  starttime,    \* time.time() at line 229, in seconds
  now,          \* the clock, in seconds
  r,            \* the outcome of requests.get in the current cycle
  logs,         \* the batch getLogs returned in the current cycle
  lastTBacks,   \* the traceback window, newest first
  lastReqDurs,  \* the cumulative list of request durations
  errorStats,   \* project -> hour bucket -> [ERROR, CRITICAL] counters
  mean,         \* the mean reported in the latest cycle, or None
  stdev,        \* the standard deviation reported in the latest cycle, or None
  console,      \* what the process printed last
  report,       \* the latest report block the process printed, whole or in part
  nReports,     \* number of report blocks printed
  exitStatus,   \* {} while the process runs, {status} once it has exited
  cycles,       \* number of calls of run() so far
  processed,    \* history: the bag of all records of the batches aggregated
  tbSeen        \* history: the traceback-bearing records fetched, in arrival order

vars == <<pc, tz, starttime, now, r, logs, lastTBacks, lastReqDurs, errorStats, mean, stdev,
          console, report, nReports, exitStatus, cycles, processed, tbSeen>>

(***************************************************************************)
(* Bounds of the model.                                                    *)
(***************************************************************************)
MaxCycles == 2
MaxBatchLen == 2
MaxTBBatchLen == 6

(***************************************************************************)
(* Values.                                                                 *)
(***************************************************************************)
None == [none |-> TRUE]
\* the outcome of requests.get: no call yet, a RequestException raised, or a
\* response with its status code and whether its body is JSON
NoResponse == [raised |-> FALSE, status_code |-> 0, parses |-> FALSE]
TransportError == [raised |-> TRUE, status_code |-> 0, parses |-> FALSE]
Response(status, parses) == [raised |-> FALSE, status_code |-> status, parses |-> parses]
EmptyDict == <<>>

Put(f, k, v) == [x \in (DOMAIN f) \cup {k} |-> IF x = k THEN v ELSE f[x]]

SeqsUpTo(S, n) == UNION {[1..k -> S] : k \in 0..n}

RECURSIVE GCD(_, _)
GCD(a, b) == IF b = 0 THEN a ELSE GCD(b, a % b)

\* the rational n/d in lowest terms
Frac(n, d) == LET g == GCD(n, d) IN [num |-> n \div g, den |-> d \div g]

RECURSIVE SumSeq(_)
SumSeq(s) == IF s = <<>> THEN 0 ELSE s[1] + SumSeq(Tail(s))

RECURSIVE SumSqSeq(_)
SumSqSeq(s) == IF s = <<>> THEN 0 ELSE s[1] * s[1] + SumSqSeq(Tail(s))

(***************************************************************************)
(* getTracebacks (lines 32-60).                                            *)
(***************************************************************************)
numTraceBacks == 5

\* mutant: the scan runs over logs, not over reversed(logs)
RECURSIVE ScanTBacks_Forward(_, _, _)
ScanTBacks_Forward(ls, i, localTBacks) ==
  IF i = 0 THEN localTBacks
  ELSE ScanTBacks_Forward(ls, i - 1,
         IF "traceback" \in DOMAIN ls[Len(ls) + 1 - i] /\ Len(localTBacks) < numTraceBacks
         THEN Append(localTBacks, ls[Len(ls) + 1 - i])
         ELSE localTBacks)

\* the loop of lines 49-52 over reversed(logs): i runs from Len(ls) down to 1
RECURSIVE ScanTBacks(_, _, _)
ScanTBacks(ls, i, localTBacks) ==
  IF i = 0 THEN localTBacks
  ELSE ScanTBacks(ls, i - 1,
         IF "traceback" \in DOMAIN ls[i] /\ Len(localTBacks) < numTraceBacks
         THEN Append(localTBacks, ls[i])
         ELSE localTBacks)

\* mutant: the truncation of lines 57-58 is missing
getTracebacks_NoTruncate(ls, tbs) == ScanTBacks(ls, Len(ls), <<>>) \o tbs

\* mutant: the truncation keeps the end of the list, lastTBacks[-numTraceBacks:]
getTracebacks_KeepEnd(ls, tbs) ==
  LET cat == ScanTBacks(ls, Len(ls), <<>>) \o tbs
  IN IF Len(cat) > numTraceBacks
     THEN SubSeq(cat, Len(cat) - numTraceBacks + 1, Len(cat))
     ELSE cat

\* mutant: line 55 concatenates the other way round, lastTBacks + localTBacks
getTracebacks_OldFirst(ls, tbs) ==
  LET cat == tbs \o ScanTBacks(ls, Len(ls), <<>>)
  IN IF Len(cat) > numTraceBacks THEN SubSeq(cat, 1, numTraceBacks) ELSE cat

getTracebacks(ls, tbs) ==
  LET localTBacks == ScanTBacks(ls, Len(ls), <<>>)
      cat == localTBacks \o tbs
  IN IF Len(cat) > numTraceBacks THEN SubSeq(cat, 1, numTraceBacks) ELSE cat

(***************************************************************************)
(* calculateStatistics (lines 62-90).                                      *)
(***************************************************************************)
\* Python's truth value of a string: the empty string is false
Truthy(str) == str # ""

\* line 78: `"response_code" and "request_duration" in log`; `in` binds
\* tighter than `and`, so this is  "response_code" and ("request_duration" in log)
IsRequest(log) == Truthy("response_code") /\ "request_duration" \in DOMAIN log

\* mutant: the durations of the batch are collected in a fresh list, and the
\* list of the previous cycles is dropped
RECURSIVE AppendDurations_Fresh(_, _, _)
AppendDurations_Fresh(ls, i, durs) ==
  IF i > Len(ls) THEN durs
  ELSE AppendDurations_Fresh(ls, i + 1,
         IF IsRequest(ls[i])
         THEN Append(IF i = 1 THEN <<>> ELSE durs, ls[i].request_duration)
         ELSE IF i = 1 THEN <<>> ELSE durs)

\* the loop of lines 76-80
RECURSIVE AppendDurations(_, _, _)
AppendDurations(ls, i, durs) ==
  IF i > Len(ls) THEN durs
  ELSE AppendDurations(ls, i + 1,
         IF IsRequest(ls[i]) THEN Append(durs, ls[i].request_duration) ELSE durs)

\* statistics.mean: sum / n, as an exact rational
Mean(durs) == Frac(SumSeq(durs), Len(durs))

\* statistics.pstdev: the square root of the population variance
\* sum((x - mean)^2) / n  =  (n * sum(x^2) - sum(x)^2) / n^2
PStdev(durs) ==
  LET n == Len(durs)
  IN [sqrt |-> Frac(n * SumSqSeq(durs) - SumSeq(durs) * SumSeq(durs), n * n)]

\* mutant: the statistics are those of the current batch, not of the history
calculateStatistics_BatchOnly(ls, durs) ==
  LET reqDurList == AppendDurations(ls, 1, durs)
      batchDurs == AppendDurations(ls, 1, <<>>)
  IN IF batchDurs # <<>>
     THEN [reqDurMean |-> Mean(batchDurs), reqDurStdev |-> PStdev(batchDurs),
           reqDurList |-> reqDurList]
     ELSE [reqDurMean |-> None, reqDurStdev |-> None, reqDurList |-> reqDurList]

calculateStatistics(ls, durs) ==
  LET reqDurList == AppendDurations(ls, 1, durs)
  IN IF reqDurList # <<>>
     THEN [reqDurMean |-> Mean(reqDurList), reqDurStdev |-> PStdev(reqDurList),
           reqDurList |-> reqDurList]
     ELSE [reqDurMean |-> None, reqDurStdev |-> None, reqDurList |-> reqDurList]

(***************************************************************************)
(* getErrorsStats (lines 92-123).                                          *)
(***************************************************************************)
Digits == <<"0", "1", "2", "3", "4", "5", "6", "7", "8", "9">>

\* strftime("%H"): the hour as two digits
Pad2(h) == Digits[(h \div 10) + 1] \o Digits[(h % 10) + 1]

\* mutant: the hour of time.gmtime
HourBucket_UTC(timestamp, offset) ==
  Pad2(((timestamp \div 1000) \div 3600) % 24)

\* line 111: time.strftime("%H", time.localtime(timestamp / 1000.))
HourBucket(timestamp, offset) ==
  Pad2((((timestamp \div 1000) + offset) \div 3600) % 24)

ZeroCounts == [ERROR |-> 0, CRITICAL |-> 0]

\* mutant: line 115 runs for a known project too, and drops its other hours
EnsureEntry_Reset(stats, project, hour) ==
  IF project \notin DOMAIN stats \/ hour \notin DOMAIN stats[project]
  THEN Put(stats, project, Put(EmptyDict, hour, ZeroCounts))
  ELSE stats

\* lines 114-117: the project and hour entries of one record
EnsureEntry(stats, project, hour) ==
  IF project \notin DOMAIN stats
  THEN Put(stats, project, Put(EmptyDict, hour, ZeroCounts))
  ELSE IF hour \notin DOMAIN stats[project]
       THEN Put(stats, project, Put(stats[project], hour, ZeroCounts))
       ELSE stats

\* mutant: every level that is not CRITICAL is counted as an ERROR
CountLevel_ElseError(stats, project, hour, level) ==
  IF level = "CRITICAL"
  THEN [stats EXCEPT ![project][hour]["CRITICAL"] = @ + 1]
  ELSE [stats EXCEPT ![project][hour]["ERROR"] = @ + 1]

\* lines 120-121
CountLevel(stats, project, hour, level) ==
  IF level = "ERROR" \/ level = "CRITICAL"
  THEN [stats EXCEPT ![project][hour][level] = @ + 1]
  ELSE stats

\* the loop of lines 109-121 from record i on; st.raised is set when a
\* subscript raised KeyError, st.stats is the dictionary as mutated so far
RECURSIVE ErrorsLoop(_, _, _, _)
ErrorsLoop(ls, i, st, offset) ==
  IF i > Len(ls) \/ st.raised THEN st
  ELSE LET log == ls[i] IN
       IF "timestamp" \notin DOMAIN log \/ "project" \notin DOMAIN log
       THEN [stats |-> st.stats, raised |-> TRUE]
       ELSE LET hour == HourBucket(log.timestamp, offset)
                ensured == EnsureEntry(st.stats, log.project, hour)
            IN IF "level" \notin DOMAIN log
               THEN [stats |-> ensured, raised |-> TRUE]
               ELSE ErrorsLoop(ls, i + 1,
                      [stats |-> CountLevel(ensured, log.project, hour, log.level),
                       raised |-> FALSE], offset)

getErrorsStats(ls, stats, offset) ==
  ErrorsLoop(ls, 1, [stats |-> stats, raised |-> FALSE], offset)

(***************************************************************************)
(* printTBacks (lines 125-143): raises KeyError on a window entry without  *)
(* "project" or "message".                                                 *)
(***************************************************************************)
printTBacksRaises(tbs) ==
  \E i \in 1..Len(tbs) : ~({"project", "message", "traceback"} \subseteq DOMAIN tbs[i])

\* lines 135-140: the entries printed, numbered from 1, up to the first entry
\* whose subscript raises
printTBacks(tbs) ==
  LET raising == {i \in 1..Len(tbs) :
                    ~({"project", "message", "traceback"} \subseteq DOMAIN tbs[i])}
      last == IF raising = {} THEN Len(tbs)
              ELSE (CHOOSE i \in raising : \A j \in raising : i <= j) - 1
  IN [i \in 1..last |-> [n |-> i, project |-> tbs[i].project,
                         message |-> tbs[i].message, traceback |-> tbs[i].traceback]]

(***************************************************************************)
(* printStatistics (lines 145-158): the two values printed.                *)
(***************************************************************************)
printStatistics(reqDurMean, reqDurStdev) == [mean |-> reqDurMean, stdev |-> reqDurStdev]

(***************************************************************************)
(* printErrorsStats (lines 160-182).                                       *)
(***************************************************************************)
\* the two digits of an hour key
DigitsOfKey ==
  [key \in {Digits[a + 1] \o Digits[b + 1] : a, b \in 0..9} |->
     CHOOSE d \in (0..9) \X (0..9) : Digits[d[1] + 1] \o Digits[d[2] + 1] = key]

KeyDigits(key) == DigitsOfKey[key]

\* the order of str: by the first character, then by the second
StrLess(a, b) ==
  LET x == KeyDigits(a)
      y == KeyDigits(b)
  IN x[1] < y[1] \/ (x[1] = y[1] /\ x[2] < y[2])

\* line 178: sorted(hours)
RECURSIVE sorted(_)
sorted(keys) ==
  IF keys = {} THEN <<>>
  ELSE LET least == CHOOSE k \in keys : \A other \in keys \ {k} : StrLess(k, other)
       IN <<least>> \o sorted(keys \ {least})

\* line 180: one line of the histogram; afterERROR is the number printed after
\* the label "ERROR:", afterCRITICAL the number printed after "CRITICAL:"
HourLine(hours, hour) ==
  [hour |-> hour, afterERROR |-> hours[hour]["CRITICAL"],
   afterCRITICAL |-> hours[hour]["ERROR"]]

\* lines 175-180: per project, the lines printed, in the order printed
printErrorsStats(stats) ==
  [proj \in DOMAIN stats |->
     LET hoursSorted == sorted(DOMAIN stats[proj])
     IN [i \in 1..Len(hoursSorted) |-> HourLine(stats[proj], hoursSorted[i])]]

\* lines 207-213: a report block; whole is FALSE when an exception ended it
\* before line 213
ReportBlock(stats, tbs, reqDurMean, reqDurStdev, whole) ==
  [errors |-> printErrorsStats(stats), tbacks |-> printTBacks(tbs),
   stats |-> IF whole THEN printStatistics(reqDurMean, reqDurStdev) ELSE None,
   whole |-> whole]

NoReport == [errors |-> EmptyDict, tbacks |-> <<>>, stats |-> None, whole |-> FALSE]

(***************************************************************************)
(* run (lines 202-205): the names of a call of run() and the three         *)
(* statements that update them.                                            *)
(***************************************************************************)
Frame(ls, stats, tbs, durs, reqDurMean, reqDurStdev) ==
  [logs |-> ls, errorStats |-> stats, lastTBacks |-> tbs, lastReqDurs |-> durs,
   mean |-> reqDurMean, stdev |-> reqDurStdev]

\* line 203
Run_getErrorsStats(f, offset) ==
  [f EXCEPT !.errorStats = getErrorsStats(f.logs, f.errorStats, offset).stats]

\* mutant: the scan reverses the batch in place (logs.reverse()) and walks it
Run_getTracebacks_InPlace(f) ==
  [f EXCEPT !.lastTBacks = getTracebacks(f.logs, f.lastTBacks),
            !.logs = [i \in 1..Len(f.logs) |-> f.logs[Len(f.logs) + 1 - i]]]

\* line 204
Run_getTracebacks(f) ==
  [f EXCEPT !.lastTBacks = getTracebacks(f.logs, f.lastTBacks)]

\* line 205
Run_calculateStatistics(f) ==
  LET st == calculateStatistics(f.logs, f.lastReqDurs)
  IN [f EXCEPT !.mean = st.reqDurMean, !.stdev = st.reqDurStdev,
               !.lastReqDurs = st.reqDurList]

(***************************************************************************)
(* Inputs: the responses the endpoint may give.                            *)
(***************************************************************************)
StatusCodes == {200, 500}
TzOffsets == {0, -10800}
Durations == {3}

\* a record with the four fields every well-formed record carries
Base(project, level, timestamp) ==
  [project |-> project, level |-> level, timestamp |-> timestamp, message |-> "m"]

\* records that differ in response_code / request_duration, one record with a
\* traceback, and two records that lack a field the code subscripts
LogRecords ==
  LET b == Base("core", "INFO", 32400000)
  IN {Put(b, "response_code", 200), Put(b, "request_duration", 1)}
     \cup {Put(Put(b, "response_code", 200), "request_duration", d) : d \in Durations}
     \cup {Put(Base("api", "ERROR", 36000000), "traceback", 1)}
     \cup {[project |-> "core", timestamp |-> 32400000, message |-> "m"]}
     \cup {[project |-> "api", level |-> "ERROR", timestamp |-> 36000000, traceback |-> 2]}

Batches == SeqsUpTo(LogRecords, MaxBatchLen)

\* records that differ in project, level and timestamp (09:00 and 10:00 UTC of
\* the first day, 09:00 UTC of the second), and one record without a level
HistRecords ==
  {Base("core", l, 32400000) : l \in {"INFO", "ERROR"}}
  \cup {Base("core", "ERROR", t) : t \in {36000000, 118800000}}
  \cup {Base("api", "INFO", 36000000), Base("api", "CRITICAL", 32400000)}
  \cup {[project |-> "core", timestamp |-> 32400000, message |-> "m"]}

HistBatches == SeqsUpTo(HistRecords, MaxBatchLen)

\* records that exercise the statistics: requests of 1, 2 and 3 seconds and
\* one record that is no request
LatRecords ==
  LET b == Base("core", "INFO", 32400000)
  IN {b} \cup {Put(Put(b, "response_code", 200), "request_duration", d) : d \in 1..3}

LatBatches == SeqsUpTo(LatRecords, MaxBatchLen)

\* ERROR records of one project at 14:30 of the first and of the second day
\* UTC, at 14:30 of the first day at UTC-3 and at UTC+5:30, and in the last
\* millisecond of the first day UTC
HourTimestamps == {52200000, 138600000, 63000000, 32400000, 86399999}
HourOffsets == {0, -10800, 19800}

HourBatches == SeqsUpTo({Base("core", "ERROR", t) : t \in HourTimestamps}, MaxBatchLen)

\* the seconds a call of run() may take, and the clock at the start
RunDurations == {1, 59, 60, 61, 130}
StartTimes == {0, 7}

ClockBatches == SeqsUpTo({Base("core", "ERROR", 32400000)}, MaxBatchLen)

\* batches of up to MaxTBBatchLen well-formed records, each with or without a
\* traceback (pattern[i]); every traceback is a fresh one, numbered in arrival
\* order from `seen` + 1, so that no two traceback-bearing records are equal
TBBatch(pattern, seen) ==
  [i \in 1..Len(pattern) |->
     LET n == seen + Cardinality({j \in 1..i : pattern[j]})
     IN IF pattern[i]
        THEN Put(Base("core", "ERROR", 32400000), "traceback", n)
        ELSE Base("core", "INFO", 32400000)]

TBBatches == {TBBatch(p, Len(tbSeen)) : p \in SeqsUpTo(BOOLEAN, MaxTBBatchLen)}

(***************************************************************************)
(* History kept for the statements: not part of the program's state.       *)
(***************************************************************************)
SeqToBag(s) ==
  [x \in {s[i] : i \in 1..Len(s)} |-> Cardinality({i \in 1..Len(s) : s[i] = x})]

HasTraceback(log) == "traceback" \in DOMAIN log

(***************************************************************************)
(* The program: __main__ (lines 217-232) and run (lines 184-215).          *)
(***************************************************************************)
InitIn(offsets, starts) ==
  /\ pc = "run"
  /\ tz \in offsets
  /\ starttime \in starts
  /\ now = starttime
  /\ r = NoResponse
  /\ logs = <<>>
  /\ lastTBacks = <<>>
  /\ lastReqDurs = <<>>
  /\ errorStats = EmptyDict
  /\ mean = None
  /\ stdev = None
  /\ console = ""
  /\ report = NoReport
  /\ nReports = 0
  /\ exitStatus = {}
  /\ cycles = 0
  /\ processed = EmptyBag
  /\ tbSeen = <<>>

Init == InitIn(TzOffsets, {7})

\* one call of run() whose GET returns a response with a JSON body (whatever
\* its status code: getLogs never reads it) and whose records carry every field
\* the code subscripts: the three accumulators are updated, the report printed
\* and the call takes `elapsed` seconds
RunOk(S, B, D) ==
  /\ pc = "run"
  /\ cycles < MaxCycles
  /\ \E elapsed \in D : now' = now + elapsed
  /\ \E status \in S, batch \in B :
       LET f0 == Frame(batch, errorStats, lastTBacks, lastReqDurs, mean, stdev)
           f == Run_calculateStatistics(Run_getTracebacks(Run_getErrorsStats(f0, tz)))
       IN /\ ~getErrorsStats(batch, errorStats, tz).raised
          /\ ~printTBacksRaises(f.lastTBacks)
          /\ r' = Response(status, TRUE)
          /\ logs' = f.logs
          /\ errorStats' = f.errorStats
          /\ lastTBacks' = f.lastTBacks
          /\ lastReqDurs' = f.lastReqDurs
          /\ mean' = f.mean
          /\ stdev' = f.stdev
          /\ report' = ReportBlock(f.errorStats, f.lastTBacks, f.mean, f.stdev, TRUE)
          /\ processed' = processed (+) SeqToBag(batch)
          /\ tbSeen' = tbSeen \o SelectSeq(batch, HasTraceback)
  /\ console' = "report"
  /\ nReports' = nReports + 1
  /\ cycles' = cycles + 1
  /\ pc' = "sleep"
  /\ UNCHANGED <<tz, starttime, exitStatus>>

\* one call of run() in which a subscript raises KeyError, in getErrorsStats
\* (lines 111-120) or in printTBacks (lines 137-138): nothing catches it, the
\* interpreter prints the traceback and exits with status 1. run() does not
\* return, so line 231 rebinds nothing; errorStats and lastReqDurs are the
\* objects the callees changed in place up to the exception. When printTBacks
\* raises, the block is printed up to the entry that raised
RunKeyError(S, B) ==
  /\ pc = "run"
  /\ cycles < MaxCycles
  /\ \E status \in S, batch \in B :
       LET es == getErrorsStats(batch, errorStats, tz)
           tb == getTracebacks(batch, lastTBacks)
           st == calculateStatistics(batch, lastReqDurs)
       IN /\ es.raised \/ printTBacksRaises(tb)
          /\ r' = Response(status, TRUE)
          /\ logs' = batch
          /\ errorStats' = es.stats
          /\ lastReqDurs' = IF es.raised THEN lastReqDurs ELSE st.reqDurList
          /\ report' = IF es.raised THEN report
                       ELSE ReportBlock(es.stats, tb, st.reqDurMean, st.reqDurStdev, FALSE)
  /\ console' = "traceback"
  /\ exitStatus' = {1}
  /\ cycles' = cycles + 1
  /\ pc' = "exited"
  /\ UNCHANGED <<tz, starttime, now, lastTBacks, mean, stdev, nReports, processed, tbSeen>>

\* requests.get raises a RequestException (DNS, TCP, TLS, timeout): lines 28-30
RunTransportError ==
  /\ pc = "run"
  /\ cycles < MaxCycles
  /\ r' = TransportError
  /\ console' = "error"
  /\ exitStatus' = {1}
  /\ cycles' = cycles + 1
  /\ pc' = "exited"
  /\ UNCHANGED <<tz, starttime, now, logs, lastTBacks, lastReqDurs, errorStats,
                 mean, stdev, report, nReports, processed, tbSeen>>

\* the body is not JSON and r.json() raises (line 27). With requests >= 2.27
\* the exception is a RequestException: caught, printed, sys.exit(1). Before,
\* it is a ValueError nothing catches: the interpreter prints the traceback
\* and exits with status 1
RunJSONDecodeError(S) ==
  /\ pc = "run"
  /\ cycles < MaxCycles
  /\ \E status \in S : r' = Response(status, FALSE)
  /\ \E caught \in BOOLEAN : console' = IF caught THEN "error" ELSE "traceback"
  /\ exitStatus' = {1}
  /\ cycles' = cycles + 1
  /\ pc' = "exited"
  /\ UNCHANGED <<tz, starttime, now, logs, lastTBacks, lastReqDurs, errorStats,
                 mean, stdev, report, nReports, processed, tbSeen>>

\* mutant: a fixed sleep of 60 seconds
SleepDuration_Fixed(t, start) == 60

\* line 232: 60.0 - ((time.time() - starttime) % 60.0)
SleepDuration(t, start) == 60 - ((t - start) % 60)

\* line 232: the sleep to the next minute, then the next call of run(); the
\* locals of the call that returned (r of getLogs, logs of run) are gone.
\* time.sleep returns after the time asked for
Sleep ==
  /\ pc = "sleep"
  /\ pc' = "run"
  /\ now' = now + SleepDuration(now, starttime)
  /\ r' = NoResponse
  /\ logs' = <<>>
  /\ UNCHANGED <<tz, starttime, lastTBacks, lastReqDurs, errorStats, mean, stdev,
                 console, report, nReports, exitStatus, cycles, processed, tbSeen>>

Next ==
  \/ RunOk(StatusCodes, Batches, {1})
  \/ RunKeyError(StatusCodes, Batches)
  \/ RunTransportError
  \/ RunJSONDecodeError(StatusCodes)
  \/ Sleep

Spec == InitIn({0}, {7}) /\ [][Next]_vars

\* the same program fed batches that exercise the histogram
NextHist ==
  \/ RunOk({200}, HistBatches, {1})
  \/ RunKeyError({200}, HistBatches)
  \/ RunTransportError
  \/ RunJSONDecodeError({200})
  \/ Sleep

SpecHist == Init /\ [][NextHist]_vars

\* the same program fed batches that exercise the traceback window; their
\* records carry every field, so no subscript raises
NextTB ==
  \/ RunOk({200}, TBBatches, {1})
  \/ RunTransportError
  \/ RunJSONDecodeError({200})
  \/ Sleep

SpecTB == InitIn({0}, {7}) /\ [][NextTB]_vars

\* the same program fed batches that exercise the statistics; their records
\* carry every field, so no subscript raises
NextLat ==
  \/ RunOk({200}, LatBatches, {1})
  \/ RunTransportError
  \/ RunJSONDecodeError({200})
  \/ Sleep

SpecLat == InitIn({0}, {7}) /\ [][NextLat]_vars

\* the same program with calls of run() of different durations
NextClock ==
  \/ RunOk({200}, ClockBatches, RunDurations)
  \/ RunTransportError
  \/ RunJSONDecodeError({200})
  \/ Sleep

SpecClock == InitIn({0}, StartTimes) /\ [][NextClock]_vars

\* the same program fed batches that exercise the hour buckets, under three
\* local UTC offsets
NextHour ==
  \/ RunOk({200}, HourBatches, {1})
  \/ RunTransportError
  \/ RunJSONDecodeError({200})
  \/ Sleep

SpecHour == InitIn(HourOffsets, {7}) /\ [][NextHour]_vars

(***************************************************************************)
(* Operators of the statements.                                            *)
(***************************************************************************)
Reverse(s) == [i \in 1..Len(s) |-> s[Len(s) + 1 - i]]

FirstN(s, n) == SubSeq(s, 1, IF Len(s) < n THEN Len(s) ELSE n)

LastN(s, n) == SubSeq(s, IF Len(s) < n THEN 1 ELSE Len(s) - n + 1, Len(s))

IsPrefix(s, t) == Len(s) <= Len(t) /\ SubSeq(t, 1, Len(s)) = s

\* the traceback-bearing records of a batch, in batch order
TBacksOf(batch) == SelectSeq(batch, HasTraceback)

\* a call of run() that returned: its report is printed and the loop sleeps
RunReturned == pc = "run" /\ pc' = "sleep"

\* C1: the traceback window never holds more than 5 entries, whatever the
\* batches of the cycles so far held (none, some, or more than 5 tracebacks).
C1_WindowAtMost5 == Len(lastTBacks) <= 5

C1_Witness ==
  /\ pc = "sleep"
  /\ cycles = 2
  /\ Len(TBacksOf(logs)) > 5
  /\ Len(tbSeen) > Len(TBacksOf(logs))
  /\ Len(lastTBacks) = 5

\* C6: a call of run() that returns leaves as window the first 5 entries of
\* (the traceback-bearing records of its batch, last one first) followed by
\* the previous window; so the last traceback-bearing record of the batch is
\* at index 0, and a batch without tracebacks leaves the window as it was.
C6_PrependReversedThenTruncate ==
  [][RunReturned =>
       /\ lastTBacks' = FirstN(Reverse(TBacksOf(logs')) \o lastTBacks, 5)
       /\ TBacksOf(logs') # <<>> =>
            lastTBacks'[1] = TBacksOf(logs')[Len(TBacksOf(logs'))]
       /\ TBacksOf(logs') = <<>> => lastTBacks' = lastTBacks]_vars

C6_Witness ==
  /\ pc = "sleep"
  /\ cycles = 2
  /\ Len(TBacksOf(logs)) \in 2..4
  /\ Len(tbSeen) - Len(TBacksOf(logs)) \in 2..4
  /\ Len(lastTBacks) = 5
  /\ HasTraceback(logs[1])
  /\ ~HasTraceback(logs[Len(logs)])

\* C7: after a cycle whose batch holds 5 or more traceback-bearing records
\* the window is exactly the last 5 of them, newest first: nothing of the
\* previous window and none of the older ones of the batch remains.
C7_BatchOfFiveOrMoreFillsWindow ==
  (pc # "exited" /\ Len(TBacksOf(logs)) >= 5)
     => lastTBacks = Reverse(LastN(TBacksOf(logs), 5))

C7_Witness ==
  /\ pc = "sleep"
  /\ cycles = 2
  /\ Len(TBacksOf(logs)) = 6
  /\ Len(tbSeen) = 9
  /\ lastTBacks[5].traceback = 5

\* C8: after any number of cycles the window is the min(5, n) most recently
\* arrived traceback-bearing records of all batches, newest first.
C8_WindowIsGlobalLastFive ==
  pc # "exited" => lastTBacks = FirstN(Reverse(tbSeen), 5)

C8_Witness ==
  /\ pc = "sleep"
  /\ cycles = 2
  /\ Len(tbSeen) = 7
  /\ Len(TBacksOf(logs)) = 3
  /\ lastTBacks[1].traceback = 7
  /\ lastTBacks[5].traceback = 3

\* the fetch of the current cycle failed: a transport error, a response whose
\* status is not 2xx, or a body that does not parse
FetchFailed ==
  \/ r.raised
  \/ r.status_code # 0 /\ (r.status_code \notin 200..299 \/ ~r.parses)

\* C2: every failed fetch is fatal: the process has exited with status 1,
\* nothing of that response was aggregated or reported, no fetch follows.
C2_FailedFetchIsFatal ==
  FetchFailed => (pc = "exited" /\ exitStatus = {1} /\ console # "report")

\* a record with both response_code and request_duration
LatencyBearing(log) == {"response_code", "request_duration"} \subseteq DOMAIN log

RECURSIVE DurationsOf(_)
DurationsOf(batch) ==
  IF batch = <<>> THEN <<>>
  ELSE <<batch[1].request_duration>> \o DurationsOf(Tail(batch))

\* C3: a call of run() that returns appends to the duration list the
\* request_duration of exactly the latency-bearing records of its batch, in
\* batch order.
C3_AppendsLatencyBearingOnly ==
  [][RunReturned =>
       lastReqDurs' = lastReqDurs \o DurationsOf(SelectSeq(logs', LatencyBearing))]_vars

\* the project/hour pairs of a histogram, and its counters (0 when absent)
PairsOf(stats) == UNION {{<<p, h>> : h \in DOMAIN stats[p]} : p \in DOMAIN stats}

CounterOf(stats, p, h, level) ==
  IF p \in DOMAIN stats /\ h \in DOMAIN stats[p] THEN stats[p][h][level] ELSE 0

Levels == {"ERROR", "CRITICAL"}

PairOfRecord(log) == <<log.project, HourBucket(log.timestamp, tz)>>

\* C4 as stated: only ERROR and CRITICAL records touch the histogram, so every
\* project/hour pair in it has ERROR + CRITICAL >= 1.
C4_EveryEntryCountsAnError ==
  \A pair \in PairsOf(errorStats) :
     errorStats[pair[1]][pair[2]].ERROR + errorStats[pair[1]][pair[2]].CRITICAL >= 1

\* C4 as amended: a call of run() that returns changes the counters of a
\* project/hour pair only if its batch holds an ERROR or CRITICAL record of
\* that pair, but every record of the batch, whatever its level, has its
\* project and hour entries in the histogram afterwards (created with both
\* counters 0 when absent); nothing else is added.
C4_OtherLevelsCreateZeroEntries ==
  [][RunReturned =>
       LET batchPairs == {PairOfRecord(logs'[i]) : i \in 1..Len(logs')}
           errorPairs == {PairOfRecord(logs'[i]) :
                            i \in {j \in 1..Len(logs') : logs'[j].level \in Levels}}
       IN /\ PairsOf(errorStats') = PairsOf(errorStats) \cup batchPairs
          /\ \A pair \in PairsOf(errorStats') \ errorPairs : \A level \in Levels :
               CounterOf(errorStats', pair[1], pair[2], level)
                 = CounterOf(errorStats, pair[1], pair[2], level)]_vars

C4_Witness ==
  /\ pc = "sleep"
  /\ cycles = 2
  /\ \E pair \in PairsOf(errorStats) : errorStats[pair[1]][pair[2]] = ZeroCounts
  /\ \E pair \in PairsOf(errorStats) : errorStats[pair[1]][pair[2]].CRITICAL = 1
  /\ \E i \in 1..Len(logs) : logs[i].level = "INFO"

\* the number of records aggregated so far with this project, hour and level
CountProcessed(p, h, level) ==
  LET matching == {log \in DOMAIN processed :
                     PairOfRecord(log) = <<p, h>> /\ log.level = level}
  IN BagCardinality([log \in matching |-> processed[log]])

\* C5: every counter of the histogram (0 when absent) is the number of records
\* of that project, hour bucket and level in all the batches aggregated since
\* the process started. (A project/hour pair that is neither in the histogram
\* nor the pair of an aggregated record has 0 on both sides.)
C5_HistogramIsCumulativeCount ==
  pc # "exited" =>
    \A pair \in PairsOf(errorStats) \cup {PairOfRecord(log) : log \in DOMAIN processed} :
      \A level \in Levels :
         CounterOf(errorStats, pair[1], pair[2], level)
           = CountProcessed(pair[1], pair[2], level)

C5_Witness ==
  /\ pc = "sleep"
  /\ cycles = 2
  /\ Len(logs) = 1
  /\ logs[1] = Base("core", "ERROR", 118800000)
  /\ errorStats["core"][HourBucket(32400000, tz)].ERROR = 2
  /\ Cardinality(PairsOf(errorStats)) >= 2

\* C9: as long as no latency-bearing record has been aggregated the mean and
\* the standard deviation are both None, and they are both None exactly when
\* the duration list is empty.
C9_NoneUntilLatencyBearing ==
  pc # "exited" =>
    /\ (\A log \in DOMAIN processed : ~LatencyBearing(log))
          => (mean = None /\ stdev = None)
    /\ (mean = None /\ stdev = None) <=> (lastReqDurs = <<>>)

\* C10: the duration list only grows at its end: in every step the list
\* before is a prefix of the list after.
C10_DurationsAppendOnly == [][IsPrefix(lastReqDurs, lastReqDurs')]_vars

C10_Witness ==
  /\ pc = "sleep"
  /\ cycles = 2
  /\ Len(lastReqDurs) = 4
  /\ lastReqDurs[1] # lastReqDurs[4]
  /\ Len(SelectSeq(logs, IsRequest)) = 2

\* the durations aggregated since the process started, taken from the history
\* of all records: how many, their sum, and the sum of (N * x - sum)^2, which
\* is N^2 times the sum of the squared deviations from the mean sum / N
HistoryDurations == {log \in DOMAIN processed : "request_duration" \in DOMAIN log}

\* the sum of f[x], each x of S counted as often as it was aggregated
RECURSIVE WeightedSum(_, _)
WeightedSum(S, f) ==
  IF S = {} THEN 0
  ELSE LET x == CHOOSE y \in S : TRUE
       IN processed[x] * f[x] + WeightedSum(S \ {x}, f)

HistoryN == WeightedSum(HistoryDurations, [log \in HistoryDurations |-> 1])

HistorySum ==
  WeightedSum(HistoryDurations, [log \in HistoryDurations |-> log.request_duration])

HistorySqDev ==
  WeightedSum(HistoryDurations,
    [log \in HistoryDurations |->
       (HistoryN * log.request_duration - HistorySum)
         * (HistoryN * log.request_duration - HistorySum)])

\* C11: the mean reported is (sum of all durations since the process started)
\* / N, and the standard deviation reported is the root of (sum of squared
\* deviations from that mean) / N, over the same N values, N and not N - 1
\* being the divisor; [1, 2, 3] gives mean 2 and variance 2/3.
C11_StatisticsOverFullHistory ==
  (pc # "exited" /\ lastReqDurs # <<>>) =>
     /\ mean # None
     /\ stdev # None
     /\ Len(lastReqDurs) = HistoryN
     /\ mean.num * HistoryN = HistorySum * mean.den
     /\ stdev.sqrt.num * HistoryN * HistoryN * HistoryN = HistorySqDev * stdev.sqrt.den
     /\ lastReqDurs = <<1, 2, 3>> =>
          (mean = [num |-> 2, den |-> 1] /\ stdev.sqrt = [num |-> 2, den |-> 3])

C11_Witness ==
  /\ pc = "sleep"
  /\ cycles = 2
  /\ lastReqDurs = <<1, 2, 3>>
  /\ Len(logs) = 1
  /\ mean = [num |-> 2, den |-> 1]
  /\ stdev = [sqrt |-> [num |-> 2, den |-> 3]]

\* C12: every sleep lasts more than 0 and at most 60 seconds and ends at a
\* whole multiple of 60 seconds after starttime, so every call of run() after
\* the first starts at such a multiple, however long the call before took.
C12_SleepsToNextMinute ==
  [][(pc = "sleep" /\ pc' = "run") =>
       /\ now' - now > 0
       /\ now' - now <= 60
       /\ (now' - starttime) % 60 = 0]_vars

C12_Witness ==
  /\ pc = "run"
  /\ cycles = 1
  /\ starttime = 7
  /\ now - starttime = 180

\* getLogs returned a batch: the GET answered and the body was decoded
Fetched == ~r.raised /\ r.status_code # 0 /\ r.parses

\* C13: every batch getLogs returns, whatever its records carry, is aggregated
\* and reported, and the loop goes on to the sleep: the process does not exit.
C13_FetchedBatchCompletesCycle ==
  Fetched => (pc = "sleep" /\ console = "report" /\ exitStatus = {})

\* the 6 orders of the statements of lines 203-205
Orders == {o \in [1..3 -> 1..3] : \A i, j \in 1..3 : o[i] = o[j] => i = j}

RunStep(k, f) ==
  CASE k = 1 -> Run_getErrorsStats(f, tz)
    [] k = 2 -> Run_getTracebacks(f)
    [] k = 3 -> Run_calculateStatistics(f)

InOrder(o, f) == RunStep(o[3], RunStep(o[2], RunStep(o[1], f)))

SameExcept(f, g, names) == \A n \in (DOMAIN f) \ names : f[n] = g[n]

\* C14: in a call of run() that returns, each of the three statements changes
\* its own accumulator only and leaves the other names and the batch as they
\* were, and each of the 6 orders of the three yields the histogram, window,
\* duration list, mean and standard deviation the call produced.
C14_SubStepsIndependent ==
  [][RunReturned =>
       LET f0 == Frame(logs', errorStats, lastTBacks, lastReqDurs, mean, stdev)
           f1 == Frame(logs', errorStats', lastTBacks', lastReqDurs', mean', stdev')
       IN /\ SameExcept(f0, RunStep(1, f0), {"errorStats"})
          /\ SameExcept(f0, RunStep(2, f0), {"lastTBacks"})
          /\ SameExcept(f0, RunStep(3, f0), {"lastReqDurs", "mean", "stdev"})
          /\ \A o \in Orders : InOrder(o, f0) = f1]_vars

C14_Witness ==
  /\ pc = "sleep"
  /\ cycles = 2
  /\ Len(logs) = 2
  /\ HasTraceback(logs[1])
  /\ LatencyBearing(logs[2])
  /\ Len(lastTBacks) = 2
  /\ Len(lastReqDurs) = 2
  /\ lastReqDurs[1] # lastReqDurs[2]
  /\ Cardinality(PairsOf(errorStats)) = 2

\* C15: a cycle whose fetch succeeded has printed one whole report block, the
\* block of the accumulators as updated with its batch, and the process runs
\* on; a cycle whose fetch failed has printed the error and no block.
C15_OneReportPerFetchedBatch ==
  /\ (Fetched /\ r.status_code \in 200..299) =>
        /\ pc = "sleep"
        /\ console = "report"
        /\ nReports = cycles
        /\ report = ReportBlock(errorStats, lastTBacks, mean, stdev, TRUE)
  /\ (r.raised \/ (r.status_code # 0 /\ ~r.parses)) =>
        /\ pc = "exited"
        /\ console \in {"error", "traceback"}
        /\ nReports = cycles - 1
        /\ logs = <<>>

\* the lines of the rendered histogram are in ascending hour order
Ascending(lines) ==
  \A i, j \in 1..Len(lines) : i < j => StrLess(lines[i].hour, lines[j].hour)

\* C16: in the block a returned call of run() printed, the number after
\* "ERROR:" is the bucket's ERROR counter, the number after "CRITICAL:" its
\* CRITICAL counter, and the hour lines of each project ascend.
C16_LabelsMatchCounters ==
  (pc = "sleep" /\ report.whole) =>
     \A proj \in DOMAIN report.errors :
        /\ Ascending(report.errors[proj])
        /\ \A i \in 1..Len(report.errors[proj]) :
             LET line == report.errors[proj][i]
             IN /\ line.afterERROR = errorStats[proj][line.hour]["ERROR"]
                /\ line.afterCRITICAL = errorStats[proj][line.hour]["CRITICAL"]

\* the 24 hour keys, by hour
HourKeys ==
  <<"00", "01", "02", "03", "04", "05", "06", "07", "08", "09", "10", "11",
    "12", "13", "14", "15", "16", "17", "18", "19", "20", "21", "22", "23">>

\* the second of the local day a millisecond timestamp falls on
SecondOfDay(timestamp) == ((timestamp \div 1000) + tz) % 86400

\* the local wall-clock hour of a timestamp, as a key
WallClockHour(timestamp) == HourKeys[(SecondOfDay(timestamp) \div 3600) + 1]

ErrorsAt(p, key) ==
  LET matching == {log \in DOMAIN processed :
                     /\ log.project = p
                     /\ log.level = "ERROR"
                     /\ WallClockHour(log.timestamp) = key}
  IN BagCardinality([log \in matching |-> processed[log]])

\* C17: every hour key of the histogram is one of "00".."23"; every record
\* aggregated is counted under the key of its local wall-clock hour, so a
\* record at 14:30:00 local time is under "14" and records of one project that
\* are a whole number of days apart are counted in one bucket.
C17_BucketIsLocalHour ==
  /\ \A pair \in PairsOf(errorStats) :
       /\ \E h \in 1..24 : HourKeys[h] = pair[2]
       /\ errorStats[pair[1]][pair[2]]["ERROR"] = ErrorsAt(pair[1], pair[2])
  /\ \A log \in DOMAIN processed :
       /\ <<log.project, WallClockHour(log.timestamp)>> \in PairsOf(errorStats)
       /\ SecondOfDay(log.timestamp) = 52200 =>
            errorStats[log.project]["14"]["ERROR"] >= processed[log]
       /\ \A other \in DOMAIN processed :
            (other.project = log.project
               /\ (other.timestamp - log.timestamp) % 86400000 = 0) =>
              \E key \in DOMAIN errorStats[log.project] :
                 errorStats[log.project][key]["ERROR"]
                    >= processed[log] + (IF other = log THEN 0 ELSE processed[other])

C17_Witness ==
  /\ pc = "sleep"
  /\ cycles = 2
  /\ tz = -10800
  /\ DOMAIN processed = {Base("core", "ERROR", 63000000), Base("core", "ERROR", 52200000),
                         Base("core", "ERROR", 138600000)}
  /\ errorStats = Put(EmptyDict, "core",
                      Put(Put(EmptyDict, "14", [ERROR |-> 1, CRITICAL |-> 0]),
                          "11", [ERROR |-> 2, CRITICAL |-> 0]))

====
